---- MODULE Spec2Model ----
(***************************************************************************)
(* Undo/redo bridge of the slide editor: one deck-scoped Y.UndoManager     *)
(* (store.ts getOrCreateUndoManager) and one fragment-scoped               *)
(* Y.UndoManager per text fragment (history/textHistory.ts), linked by     *)
(* the pending payload queue and the stack-item-added / stack-item-popped  *)
(* listeners.                                                              *)
(*                                                                         *)
(* The document is modelled at two levels.  The deck map and the bridge    *)
(* counter are values; a stack item keeps the value before and after the   *)
(* transactions it captured.  The content of the text fragments is a set   *)
(* of items (a paragraph seeded by appendObjectToSlide, and the characters *)
(* typed into it) with an alive set, as the undo manager deletes and       *)
(* re-creates items.                                                       *)
(***************************************************************************)
EXTENDS Integers, Sequences, FiniteSets, TLC

\* ---------------------------------------------------------------- bounds
MaxSteps == 6
MaxTicks == 1
MaxItems == 5
\* subscribers of useDeckHistory, and the cap of their event counter
MaxSubs == 2
MaxSeen == 2

\* ------------------------------------------------------------- constants
CaptureTimeout == 500

SlideIds == {"s1", "s2"}
ObjIds == {"t1", "t2"}
Frags == {"text-t1", "text-t2"}

DECK_HISTORY_ORIGIN == "deck-history"
TEXT_HISTORY_ORIGIN == "text-history"
ySyncPluginKey == "y-sync"
NullOrigin == "null"
ProviderOrigin == "provider"
DeckUM == "deckUndoManager"

\* getTextFragmentKey: `text-${objectId}`
getTextFragmentKey(o) == IF o = "t1" THEN "text-t1" ELSE "text-t2"

\* ------------------------------------------------------------ deck value
NoObject == [present |-> FALSE, x |-> 0, y |-> 0]
NoSlide == [present |-> FALSE, objects |-> [o \in ObjIds |-> NoObject], order |-> <<>>,
            hasOrder |-> TRUE]
EmptyDeck == [inited |-> FALSE, title |-> "", slideOrder |-> <<>>,
              slides |-> [s \in SlideIds |-> NoSlide]]

\* a deck that already holds slide s1 with the text objects t1 and t2
LoadedDeck == [inited |-> TRUE, title |-> "", slideOrder |-> <<"s1">>,
               slides |-> [s \in SlideIds |->
                  IF s = "s1"
                  THEN [present |-> TRUE,
                        objects |-> [o \in ObjIds |-> [present |-> TRUE, x |-> 0, y |-> 0]],
                        order |-> <<"t1", "t2">>, hasOrder |-> TRUE]
                  ELSE NoSlide]]

\* the same deck as an older writer stored it: slide s1 has no objectOrder
LegacyDeck == [LoadedDeck EXCEPT !.slides["s1"].order = <<>>,
                                 !.slides["s1"].hasOrder = FALSE]

SeqToSet(s) == {s[i] : i \in 1..Len(s)}
Last(s) == s[Len(s)]
Front(s) == SubSeq(s, 1, Len(s) - 1)

RECURSIVE FilterSeq(_, _)
FilterSeq(s, S) ==
    IF s = <<>> THEN <<>>
    ELSE IF Head(s) \in S THEN <<Head(s)>> \o FilterSeq(Tail(s), S)
         ELSE FilterSeq(Tail(s), S)

\* order.delete(order.indexOf(id), 1): drop the first occurrence
RECURSIVE RemoveFirst(_, _)
RemoveFirst(s, e) ==
    IF s = <<>> THEN <<>>
    ELSE IF Head(s) = e THEN Tail(s)
         ELSE <<Head(s)>> \o RemoveFirst(Tail(s), e)

RECURSIVE SetToSeq(_)
SetToSeq(S) ==
    IF S = {} THEN <<>>
    ELSE LET m == CHOOSE a \in S : TRUE
         IN <<m>> \o SetToSeq(S \ {m})

\* ySlideToSlide: the objects in objectOrder that exist, then the strays
ySlideToSlide(sid, ySlide) ==
    LET present == {o \in ObjIds : ySlide.objects[o].present}
        ordered == FilterSeq(ySlide.order, present)
        strays  == SetToSeq(present \ SeqToSet(ySlide.order))
        ids     == ordered \o strays
    IN [id |-> sid,
        objects |-> [i \in 1..Len(ids) |->
                      [id |-> ids[i], x |-> ySlide.objects[ids[i]].x,
                       y |-> ySlide.objects[ids[i]].y]]]

\* serializeDeck: title, slideOrder as stored, the slides named by it
serializeDeck(d) ==
    [title |-> d.title,
     slideOrder |-> d.slideOrder,
     slides |-> [s \in {t \in SeqToSet(d.slideOrder) : d.slides[t].present} |->
                   ySlideToSlide(s, d.slides[s])]]

\* ---------------------------------------------------- undo manager value
NoPayload == [fragmentKey |-> "none"]
NoDs == [deck |-> EmptyDeck, ctr |-> 0]
NoItem == [ins |-> {}, del |-> {}, ds |-> FALSE, from |-> NoDs, to |-> NoDs,
           meta |-> NoPayload, src |-> "null", nil |-> TRUE]

StackItem(tr) ==
    [ins |-> tr.fins, del |-> tr.fdel, ds |-> tr.ds,
     from |-> IF tr.ds THEN tr.from ELSE NoDs,
     to |-> IF tr.ds THEN tr.to ELSE NoDs,
     meta |-> NoPayload, src |-> tr.src, nil |-> FALSE]

\* new Y.UndoManager(...): empty stacks, lastChange 0
NewUndoManager(tracked) ==
    [exists |-> TRUE, undoStack |-> <<>>, redoStack |-> <<>>, lastChange |-> 0,
     undoing |-> FALSE, redoing |-> FALSE, currStackItem |-> NoItem,
     trackedOrigins |-> tracked, listeners |-> 0, scope |-> {}]

\* a registration that attaches no listener
attachNoListener(um) == um

\* attachLocalListeners: one more 'stack-item-added' listener on the manager
attachLocalListeners(um) == [um EXCEPT !.listeners = @ + 1]

NoManager == [NewUndoManager({}) EXCEPT !.exists = FALSE]

\* a transaction as the afterTransaction handlers see it
Transaction(origin, from, to, ds, fins, fdel, src) ==
    [origin |-> origin, from |-> from, to |-> to, ds |-> ds,
     fins |-> fins, fdel |-> fdel, src |-> src]

\* ------------------------------------------------------------ ghost log
\* what the listeners did during the current operation (not program state)
Event(ev, f, origin, type, busy, meta, curr, qb, qa) ==
    [ev |-> ev, f |-> f, origin |-> origin, type |-> type, busy |-> busy,
     meta |-> meta, curr |-> curr, qb |-> qb, qa |-> qa]

Log(w, e) == [w EXCEPT !.log = Append(@, e)]

\* ------------------------------------------------- Y.UndoManager capture
\* a capture predicate that lets every transaction through (Yjs' default)
captureEveryTransaction(tr) == TRUE

\* createDeckCaptureTransaction: changed.size > 0 || changedParentTypes.size > 0
captureTransaction(tr) == tr.ds \/ tr.fins # {} \/ tr.fdel # {}

\* collectUndoScope: the document itself, then every shared root whose key
\* does not start with 'text-'
shouldIncludeShareEntry(key) == key \notin Frags
collectUndoScope == {"doc"} \cup {k \in {"deck", "__deckHistoryBridge"} \cup Frags :
                                    shouldIncludeShareEntry(k)}

\* the roots a transaction changed (changedParentTypes)
ChangedRoots(its, tr) ==
    {its[i].f : i \in tr.fins \cup tr.fdel}
      \cup (IF tr.ds THEN {"deck", "__deckHistoryBridge"} ELSE {})

\* a deck manager that also tracks the editor binding's origin
DeckTrackedOriginsWithSync == {DECK_HISTORY_ORIGIN, TEXT_HISTORY_ORIGIN, ySyncPluginKey}

\* trackedOrigins of the deck manager; the manager adds itself
DeckTrackedOrigins == {DECK_HISTORY_ORIGIN, TEXT_HISTORY_ORIGIN}

\* a registration without the bridgedDeckManagers guard
registerDeckUndoManagerAgain(um) == [um EXCEPT !.listeners = @ + 1]

\* registerDeckUndoManager: the bridge listeners are attached once per
\* manager (bridgedDeckManagers)
registerDeckUndoManager(um) ==
    IF um.listeners > 0 THEN um ELSE [um EXCEPT !.listeners = 1]

\* a lookup that builds a new manager on every call
getOrCreateUndoManagerFresh(um) ==
    registerDeckUndoManager(NewUndoManager(DeckTrackedOrigins))

\* getOrCreateUndoManager: the cached manager of the document, created and
\* bridged on the first call; later calls pass the same scope and an equal
\* capture predicate to it
getOrCreateUndoManager(um) ==
    IF ~um.exists THEN registerDeckUndoManager(NewUndoManager(DeckTrackedOrigins))
    ELSE registerDeckUndoManager(um)

\* the only element of a singleton set; {e(v) : v \in {x}} computes x once
The(S) == CHOOSE r \in S : TRUE

\* a handler that clears the redo stack on every capture outside undo()
StartCaptureClearingOnRedo(um) ==
    IF um.undoing THEN [um EXCEPT !.lastChange = 0]
    ELSE [um EXCEPT !.redoStack = <<>>]

\* afterTransactionHandler of Y.UndoManager once the transaction is tracked:
\* an undo stops capturing, a fresh change clears the redo stack
StartCapture(um) ==
    IF um.undoing THEN [um EXCEPT !.lastChange = 0]
    ELSE IF ~um.redoing THEN [um EXCEPT !.redoStack = <<>>]
    ELSE um

\* the stack the captured change goes to
TargetStack(um) == IF um.undoing THEN um.redoStack ELSE um.undoStack

\* the change is appended to the last item inside the capture timeout
CanMerge(um, t) ==
    /\ um.lastChange > 0
    /\ t - um.lastChange < CaptureTimeout
    /\ Len(TargetStack(um)) > 0
    /\ ~um.undoing /\ ~um.redoing

MergedItem(lastOp, tr) ==
    [lastOp EXCEPT
       !.ins = @ \cup tr.fins,
       !.del = @ \cup tr.fdel,
       !.ds = @ \/ tr.ds,
       !.from = IF lastOp.ds THEN @ ELSE IF tr.ds THEN tr.from ELSE NoDs,
       !.to = IF tr.ds THEN tr.to ELSE @]

\* merge into the last item, else push a new item
NewStack(um, tr, t) ==
    IF CanMerge(um, t)
    THEN [TargetStack(um) EXCEPT ![Len(TargetStack(um))] =
                                    MergedItem(Last(TargetStack(um)), tr)]
    ELSE Append(TargetStack(um), StackItem(tr))

\* a handler that stores every captured change on the undo stack
PutStackOnUndoOnly(um, stack, t) ==
    [um EXCEPT !.undoStack = stack, !.lastChange = t]

\* store the stack; lastChange is set only outside undo and redo
PutStack(um, stack, t) ==
    IF um.undoing THEN [um EXCEPT !.redoStack = stack]
    ELSE IF um.redoing THEN [um EXCEPT !.undoStack = stack]
    ELSE [um EXCEPT !.undoStack = stack, !.lastChange = t]

Capture(um, tr, t) ==
    The({[um |-> PutStack(um1, NewStack(um1, tr, t), t),
          didAdd |-> ~CanMerge(um1, t),
          type |-> IF um1.undoing THEN "redo" ELSE "undo"]
         : um1 \in {StartCapture(um)}})

\* event.stackItem.meta.set(TEXT_HISTORY_META_KEY, payload) on the item just pushed
SetMeta(um, type, payload) ==
    IF type = "redo"
    THEN [um EXCEPT !.redoStack[Len(um.redoStack)].meta = payload]
    ELSE [um EXCEPT !.undoStack[Len(um.undoStack)].meta = payload]

\* a dequeue that invents a payload when the queue is empty
dequeuePayloadDefault(queue) ==
    IF queue = <<>> THEN [payload |-> [fragmentKey |-> "text-t1"], queue |-> queue]
    ELSE [payload |-> Head(queue), queue |-> Tail(queue)]

\* a dequeue that takes the newest payload (queue.pop() for queue.shift())
dequeuePayloadNewest(queue) ==
    IF queue = <<>> THEN [payload |-> NoPayload, queue |-> queue]
    ELSE [payload |-> Last(queue), queue |-> Front(queue)]

\* dequeuePayload: the head of the queue, or nothing
dequeuePayload(queue) ==
    IF queue = <<>> THEN [payload |-> NoPayload, queue |-> queue]
    ELSE [payload |-> Head(queue), queue |-> Tail(queue)]

\* handleStackItemAdded of registerDeckUndoManager
handleStackItemAdded(w, origin, type) ==
    LET busy == w.dm.undoing \/ w.dm.redoing
        curr == w.dm.currStackItem.meta
    IN IF origin = TEXT_HISTORY_ORIGIN
       THEN LET d == dequeuePayload(w.queue)
                w1 == [w EXCEPT !.queue = d.queue]
                w2 == IF d.payload = NoPayload THEN w1
                      ELSE [w1 EXCEPT !.dm = SetMeta(@, type, d.payload)]
            IN Log(w2, Event("deckPush", "doc", origin, type, busy, d.payload, curr,
                             w.queue, d.queue))
       ELSE IF origin = DeckUM
       THEN LET w2 == IF curr = NoPayload THEN w
                      ELSE [w EXCEPT !.dm = SetMeta(@, type, curr)]
            IN Log(w2, Event("deckPush", "doc", origin, type, busy, curr, curr,
                             w.queue, w.queue))
       ELSE Log(w, Event("deckPush", "doc", origin, type, busy, NoPayload, curr,
                         w.queue, w.queue))

\* ghost: the transaction the deck manager's handler is looking at, with its
\* origin and whether it changed anything
Seen(w, tr) ==
    Log(w, Event("deckSeen", "doc", tr.origin,
                 IF tr.ds \/ tr.fins # {} \/ tr.fdel # {} THEN "changed" ELSE "empty",
                 w.dm.undoing \/ w.dm.redoing, NoPayload, NoPayload, w.queue, w.queue))

\* clear(false, true) of the afterTransaction handler: 'stack-cleared' is
\* emitted when a fresh change drops a non-empty redo stack (logged ahead of
\* the record of the captured transaction, which stays next to its push)
emitStackCleared(w, um) ==
    IF ~um.undoing /\ ~um.redoing /\ um.redoStack # <<>>
    THEN Log(w, Event("deckCleared", "doc", DeckUM, "redo", FALSE, NoPayload, NoPayload,
                      w.queue, w.queue))
    ELSE w

\* emit('stack-item-added') of the deck manager: every registered push
\* handler runs
RECURSIVE emitDeckStackItemAdded(_, _, _, _)
emitDeckStackItemAdded(w, origin, type, n) ==
    IF n = 0 THEN w
    ELSE emitDeckStackItemAdded(handleStackItemAdded(w, origin, type), origin, type, n - 1)

\* afterTransaction handler of the deck manager
deckAfterTransaction(w, tr) ==
    IF \/ ~captureTransaction(tr)
       \/ ~(\/ "doc" \in collectUndoScope
            \/ ChangedRoots(w.items, tr) \cap (collectUndoScope \cup w.dm.scope) # {})
       \/ tr.origin \notin (w.dm.trackedOrigins \cup {DeckUM})
    THEN Seen(w, tr)
    ELSE The({IF c.didAdd
              THEN emitDeckStackItemAdded(Seen(emitStackCleared([w EXCEPT !.dm = c.um],
                                                                w.dm), tr),
                                          tr.origin, c.type, c.um.listeners)
              ELSE Log(Seen(emitStackCleared([w EXCEPT !.dm = c.um], w.dm), tr),
                       Event("deckUpdate", "doc", tr.origin, c.type, FALSE,
                             NoPayload, NoPayload, w.queue, w.queue))
              : c \in {Capture(w.dm, tr, w.now)}})

\* enqueueTextHistoryPayload: queue the payload, then run the relay
\* transaction; its observers run after those of the transaction in progress
enqueueTextHistoryPayload(w, payload) ==
    LET before == [deck |-> w.deck, ctr |-> w.ctr]
        after == [deck |-> w.deck, ctr |-> w.ctr + 1]
    IN [w EXCEPT !.queue = Append(@, payload),
                 !.ctr = @ + 1,
                 !.cleanups = Append(@, Transaction(TEXT_HISTORY_ORIGIN, before, after,
                                        TRUE, {}, {}, payload.fragmentKey))]

\* the stack-item-added listener of attachLocalListeners
localStackItemAdded(w, f, type) ==
    LET busy == w.reg[f].undoing \/ w.reg[f].redoing
    IN IF type = "redo"
       THEN Log(w, Event("fragPush", f, f, type, busy, NoPayload, NoPayload,
                         w.queue, w.queue))
       ELSE The({Log(w1, Event("fragPush", f, f, type, busy, [fragmentKey |-> f],
                               NoPayload, w.queue, w1.queue))
                 : w1 \in {enqueueTextHistoryPayload(w, [fragmentKey |-> f])}})

\* emit('stack-item-added'): every listener attached to the manager runs
RECURSIVE emitStackItemAdded(_, _, _, _)
emitStackItemAdded(w, f, type, n) ==
    IF n = 0 THEN w
    ELSE emitStackItemAdded(localStackItemAdded(w, f, type), f, type, n - 1)

\* afterTransaction handler of the manager of fragment f (scope: that fragment)
fragAfterTransaction(w, f, tr) ==
    LET um == w.reg[f]
    IN IF \/ ~um.exists
          \/ f \notin ChangedRoots(w.items, tr)
          \/ tr.origin \notin (um.trackedOrigins \cup {f})
       THEN w
       ELSE The({IF c.didAdd
                 THEN emitStackItemAdded([w EXCEPT !.reg[f] = c.um], f, c.type,
                                         c.um.listeners)
                 ELSE [w EXCEPT !.reg[f] = c.um]
                 : c \in {Capture(um, tr, w.now)}})

\* doc.emit('afterTransaction'): the deck manager, then the fragment managers
AfterTransaction(w, tr) ==
    The({The({fragAfterTransaction(w2, "text-t2", tr)
              : w2 \in {fragAfterTransaction(w1, "text-t1", tr)}})
         : w1 \in {deckAfterTransaction(w, tr)}})

\* cleanupTransactions: one transaction after the other, those opened by the
\* observers included
RECURSIVE cleanupTransactions(_)
cleanupTransactions(w) ==
    IF w.cleanups = <<>> THEN w
    ELSE The({cleanupTransactions(w1)
              : w1 \in {AfterTransaction([w EXCEPT !.cleanups = Tail(@)],
                                         Head(w.cleanups))}})

\* doc.transact at top level, the body's changes already applied to w
transact(w, tr) == cleanupTransactions([w EXCEPT !.cleanups = <<tr>>])

\* ---------------------------------------------------- Y.UndoManager pop
\* the deleted items of a stack item that can be re-created: not created in
\* the same item, and their parent alive or re-created with them
ItemsToRedo(its, al, item, f) ==
    LET cand == {i \in item.del \ item.ins : f = "doc" \/ its[i].f = f}
        roots == {i \in cand : its[i].parent = 0}
    IN roots \cup {i \in cand : its[i].parent # 0
                                  /\ (its[i].parent \in roots \/ its[i].parent \in al)}

\* popStackItem's loop: pop until an item changes something; f is "doc" for
\* a manager whose scope holds the document, else the fragment of its scope
RECURSIVE PopLoop(_, _, _, _, _)
PopLoop(stack, its, al, cur, f) ==
    IF stack = <<>>
    THEN [stack |-> stack, item |-> NoItem, alive |-> al, ds |-> cur,
          fins |-> {}, fdel |-> {}, dsch |-> FALSE]
    ELSE LET item == Last(stack)
             roots == {i \in item.ins : i \in al /\ (f = "doc" \/ its[i].f = f)}
             redo == ItemsToRedo(its, al, item, f)
             al1 == al \cup redo
             gone == {i \in al1 : i \in roots \/ its[i].parent \in roots}
             dsch == item.ds /\ f = "doc"
             performedChange == dsch \/ redo # {} \/ roots # {}
         IN IF performedChange
            THEN [stack |-> Front(stack), item |-> item, alive |-> al1 \ gone,
                  ds |-> IF dsch THEN item.from ELSE cur,
                  fins |-> redo, fdel |-> gone, dsch |-> dsch]
            ELSE PopLoop(Front(stack), its, al, cur, f)

\* a lookup that builds a new manager on every call
getFragmentHistoryFresh(w, f) ==
    [w EXCEPT !.reg[f] = attachLocalListeners(NewUndoManager({NullOrigin}))]

\* getFragmentHistory: the registry entry of the key, created on first use
getFragmentHistory(w, f) ==
    IF w.reg[f].exists THEN w
    ELSE [w EXCEPT !.reg[f] = attachLocalListeners(NewUndoManager({NullOrigin}))]

\* undo() / redo() of the manager of fragment f
fragPop(w, f, kind) ==
    LET stack == IF kind = "undo" THEN w.reg[f].undoStack ELSE w.reg[f].redoStack
        cur == [deck |-> w.deck, ctr |-> w.ctr]
    IN The({The({[w2 EXCEPT !.reg[f].currStackItem = NoItem,
                            !.reg[f].undoing = FALSE,
                            !.reg[f].redoing = FALSE]
                 : w2 \in {transact(
                     [w EXCEPT !.reg[f].undoing = (kind = "undo"),
                               !.reg[f].redoing = (kind = "redo"),
                               !.reg[f].undoStack = IF kind = "undo" THEN p.stack ELSE @,
                               !.reg[f].redoStack = IF kind = "redo" THEN p.stack ELSE @,
                               !.reg[f].currStackItem = p.item,
                               !.alive = p.alive],
                     Transaction(f, cur, cur, FALSE, p.fins, p.fdel, "null"))}})
            : p \in {PopLoop(stack, w.items, w.alive, cur, f)}})

\* a pop handler that answers every pop with the fragment manager's undo()
handleStackItemPoppedUndoOnly(w, item, type) ==
    LET payload == item.meta
        w0 == Log(w, Event("popped", "doc", DeckUM, type, TRUE, payload, payload,
                           w.queue, w.queue))
    IN IF payload = NoPayload THEN w0
       ELSE LET f == payload.fragmentKey
            IN The({fragPop(w2, f, "undo")
                    : w2 \in {Log(getFragmentHistory(w0, f),
                                  Event("fragCall", f, DeckUM, "undo", TRUE, payload,
                                        payload, w.queue, w.queue))}})

\* handleStackItemPopped of registerDeckUndoManager
handleStackItemPopped(w, item, type) ==
    LET payload == item.meta
        w0 == Log(w, Event("popped", "doc", DeckUM, type, TRUE, payload, payload,
                           w.queue, w.queue))
    IN IF payload = NoPayload THEN w0
       ELSE LET f == payload.fragmentKey
                kind == IF type = "undo" THEN "undo" ELSE "redo"
            IN The({fragPop(w2, f, kind)
                    : w2 \in {Log(getFragmentHistory(w0, f),
                                  Event("fragCall", f, DeckUM, kind, TRUE, payload,
                                        payload, w.queue, w.queue))}})

\* emit('stack-item-popped') of the deck manager: every registered pop
\* handler runs
RECURSIVE emitDeckStackItemPopped(_, _, _, _)
emitDeckStackItemPopped(w, item, type, n) ==
    IF n = 0 THEN w
    ELSE emitDeckStackItemPopped(handleStackItemPopped(w, item, type), item, type, n - 1)

\* undo() / redo() of the deck manager
deckPop(w, kind) ==
    LET stack == IF kind = "undo" THEN w.dm.undoStack ELSE w.dm.redoStack
        cur == [deck |-> w.deck, ctr |-> w.ctr]
    IN The({The({The({[w3 EXCEPT !.dm.currStackItem = NoItem,
                                 !.dm.undoing = FALSE,
                                 !.dm.redoing = FALSE]
                      : w3 \in {IF p.item.nil THEN w2
                                ELSE emitDeckStackItemPopped(w2, p.item, kind,
                                                             w2.dm.listeners)}})
                 : w2 \in {transact(
                     [w EXCEPT !.dm.undoing = (kind = "undo"),
                               !.dm.redoing = (kind = "redo"),
                               !.dm.undoStack = IF kind = "undo" THEN p.stack ELSE @,
                               !.dm.redoStack = IF kind = "redo" THEN p.stack ELSE @,
                               !.dm.currStackItem = p.item,
                               !.deck = p.ds.deck,
                               !.ctr = p.ds.ctr,
                               !.alive = p.alive],
                     Transaction(DeckUM, cur, p.ds, p.dsch, p.fins, p.fdel,
                                 p.item.src))}})
            : p \in {PopLoop(stack, w.items, w.alive, cur,
                             IF "doc" \in collectUndoScope THEN "doc" ELSE "deck")}})

\* ------------------------------------------------------- store actions
\* ensureDeckStructure: create slideOrder, slides and title when missing
ensureDeckStructure(d) == [d EXCEPT !.inited = TRUE]

\* createYSlide of a slide without objects
createYSlide == [present |-> TRUE, objects |-> [o \in ObjIds |-> NoObject], order |-> <<>>,
                 hasOrder |-> TRUE]

\* ensureSlideContainers: a slide without objectOrder gets one, built from
\* the keys of its objects, with ySlide.set
ensureSlideContainers(ySlide) ==
    IF ySlide.hasOrder THEN ySlide
    ELSE [ySlide EXCEPT
            !.order = SetToSeq({o \in ObjIds : ySlide.objects[o].present}),
            !.hasOrder = TRUE]

\* the slide sid looked up and handed to ensureSlideContainers
WithSlideContainers(d, sid) ==
    IF d.slides[sid].present
    THEN [d EXCEPT !.slides[sid] = ensureSlideContainers(@)]
    ELSE d

\* the slide sid exists and ensureSlideContainers has to write to it
WritesContainers(d, sid) == d.slides[sid].present /\ ~d.slides[sid].hasOrder

\* body of addSlide
addSlideBody(d, sid) ==
    LET d1 == ensureDeckStructure(d)
    IN [d1 EXCEPT !.slides[sid] = createYSlide,
                  !.slideOrder = Append(@, sid)]

\* an append that pushes the id on objectOrder without looking
appendObjectBodyAlwaysPush(d, sid, o, x, y) ==
    LET d1 == WithSlideContainers(ensureDeckStructure(d), sid)
    IN IF ~d1.slides[sid].present THEN d1
       ELSE [d1 EXCEPT !.slides[sid].objects[o] = [present |-> TRUE, x |-> x, y |-> y],
                       !.slides[sid].order = Append(@, o)]

\* body of appendObjectToSlide, the deck part
appendObjectBody(d, sid, o, x, y) ==
    LET d1 == WithSlideContainers(ensureDeckStructure(d), sid)
    IN IF ~d1.slides[sid].present THEN d1
       ELSE [d1 EXCEPT !.slides[sid].objects[o] = [present |-> TRUE, x |-> x, y |-> y],
                       !.slides[sid].order =
                           IF o \in SeqToSet(@) THEN @ ELSE Append(@, o)]

\* findObject
findObject(d, sid, o) ==
    IF d.slides[sid].present THEN d.slides[sid].objects[o] ELSE NoObject

\* body of updateObjectPosition
updateObjectPositionBody(d, sid, o, x, y) ==
    LET d1 == WithSlideContainers(ensureDeckStructure(d), sid)
    IN IF ~findObject(d1, sid, o).present THEN d1
       ELSE [d1 EXCEPT !.slides[sid].objects[o].x = x,
                       !.slides[sid].objects[o].y = y]

\* body of deleteObjectFromSlide
deleteObjectBody(d, sid, o) ==
    LET d1 == WithSlideContainers(ensureDeckStructure(d), sid)
    IN IF ~d1.slides[sid].present \/ ~d1.slides[sid].objects[o].present THEN d1
       ELSE [d1 EXCEPT !.slides[sid].objects[o] = NoObject,
                       !.slides[sid].order = RemoveFirst(@, o)]

\* currentOrder.indexOf(id), counted from 1; 0 when the id is not there
RECURSIVE IndexOf(_, _)
IndexOf(s, e) ==
    IF s = <<>> THEN 0
    ELSE IF Head(s) = e THEN 1
    ELSE IF IndexOf(Tail(s), e) = 0 THEN 0 ELSE 1 + IndexOf(Tail(s), e)

\* deleteSlide found the slide in the slides map and in slideOrder
deleteSlideFinds(d, sid) == d.slides[sid].present /\ IndexOf(d.slideOrder, sid) > 0

\* nextOrder[removalIndex] ?? nextOrder[removalIndex - 1] ?? nextOrder[0];
\* idx is removalIndex + 1
fallbackId(nextOrder, idx) ==
    IF idx <= Len(nextOrder) THEN nextOrder[idx]
    ELSE IF idx - 1 >= 1 /\ idx - 1 <= Len(nextOrder) THEN nextOrder[idx - 1]
    ELSE IF nextOrder # <<>> THEN nextOrder[1]
    ELSE "undefined"

\* the slide deleteSlide returns: the id of the fallback slide when the
\* slides map holds it
deleteSlideFallback(d, sid) ==
    IF ~deleteSlideFinds(d, sid) THEN "undefined"
    ELSE LET id == fallbackId(RemoveFirst(d.slideOrder, sid), IndexOf(d.slideOrder, sid))
         IN IF id # "undefined" /\ id # sid /\ d.slides[id].present THEN id
            ELSE "undefined"

\* body of deleteSlide
deleteSlideBody(d, sid) ==
    LET d1 == ensureDeckStructure(d)
    IN IF ~deleteSlideFinds(d1, sid) THEN d1
       ELSE LET d2 == [d1 EXCEPT !.slideOrder = RemoveFirst(@, sid),
                                 !.slides[sid] = NoSlide]
                fb == deleteSlideFallback(d1, sid)
            IN IF fb = "undefined" THEN d2 ELSE WithSlideContainers(d2, fb)

\* fragment.length > 0: the fragment holds an alive paragraph
Paragraphs(its, al, f) == {i \in al : its[i].f = f /\ its[i].parent = 0}

\* the rendered content of a fragment: its alive items
readFragmentText(its, al, f) == {i \in al : its[i].f = f}

\* ------------------------------------------- useDeckHistory subscribers
\* subscribers of useDeckHistory: each has its own scheduled flag; the
\* microtask queue holds the subscriber of every queued notification.
\* seen (ghost) counts the stack events a subscriber's handler ran for since
\* its last notification, last (ghost) is the last notification delivered
NoSubscribers ==
    [subs |-> [g \in 1..MaxSubs |-> [active |-> FALSE, scheduled |-> FALSE, seen |-> 0]],
     count |-> 0, microtasks |-> <<>>, last |-> [g |-> 0, seen |-> 0]]

\* a notify that schedules a microtask for every event
notifyEveryEvent(hs, g) ==
    [hs EXCEPT !.subs[g].scheduled = TRUE, !.microtasks = Append(@, g)]

\* notify of subscribe: nothing while a microtask is scheduled, else schedule one
notify(hs, g) ==
    IF hs.subs[g].scheduled THEN hs
    ELSE [hs EXCEPT !.subs[g].scheduled = TRUE, !.microtasks = Append(@, g)]

\* handleStackChange of subscriber g
handleStackChange(hs, g) ==
    IF ~hs.subs[g].active THEN hs
    ELSE notify([hs EXCEPT !.subs[g].seen = IF @ < MaxSeen THEN @ + 1 ELSE @], g)

\* one stack event of the deck manager: the handler of every subscriber runs
RECURSIVE emitStackEvent(_, _)
emitStackEvent(hs, g) ==
    IF g > MaxSubs THEN hs ELSE emitStackEvent(handleStackChange(hs, g), g + 1)

RECURSIVE emitStackEvents(_, _)
emitStackEvents(hs, n) ==
    IF n = 0 \/ hs.count = 0 THEN hs ELSE emitStackEvents(emitStackEvent(hs, 1), n - 1)

\* the events of an operation that the subscribers listen to:
\* stack-item-added, stack-item-popped and stack-cleared of the deck manager
StackEvents(log) ==
    Cardinality({i \in DOMAIN log : log[i].ev \in {"deckPush", "popped", "deckCleared"}})

\* ----------------------------------------------------------------- state
VARIABLES deck, textCounter, items, alive, deckUndoManager, fragmentRegistry,
          pendingPayloads, mounted, now, steps, trace, hist, historySubscribers

vars == <<deck, textCounter, items, alive, deckUndoManager, fragmentRegistry,
          pendingPayloads, mounted, now, steps, trace, hist, historySubscribers>>

\* the state as one value, handed through the synchronous listener cascade
World ==
    [deck |-> deck, ctr |-> textCounter, items |-> items, alive |-> alive,
     dm |-> deckUndoManager, reg |-> fragmentRegistry, queue |-> pendingPayloads,
     cleanups |-> <<>>, log |-> <<>>, now |-> now]

\* what a user sees of the document: the serialized deck and every text
DocStateOf(d, its, al) ==
    [deck |-> serializeDeck(d),
     text |-> [f \in Frags |-> readFragmentText(its, al, f)]]
DocState == DocStateOf(deck, items, alive)

canUndo == Len(deckUndoManager.undoStack) > 0
canRedo == Len(deckUndoManager.redoStack) > 0

\* ghost: the stack depths before an operation, and the operation before it
Depths ==
    [dU |-> Len(deckUndoManager.undoStack), dR |-> Len(deckUndoManager.redoStack),
     fU |-> [f \in Frags |-> Len(fragmentRegistry[f].undoStack)],
     fR |-> [f \in Frags |-> Len(fragmentRegistry[f].redoStack)]]
NoPrev == [op |-> "none", f |-> "doc", log |-> <<>>,
           pre |-> [dU |-> 0, dR |-> 0, fU |-> [f \in Frags |-> 0],
                    fR |-> [f \in Frags |-> 0]],
           pop |-> "none", pf |-> "doc", ppush |-> FALSE]
PrevOf(t) == [op |-> t.op, f |-> t.f, log |-> t.log, pre |-> t.pre,
              pop |-> t.prev.op, pf |-> t.prev.f,
              ppush |-> \E i \in DOMAIN t.prev.log : t.prev.log[i].ev = "fragPush"]

\* ghost: the timeline of document states an ideal linear history would hold
HistEdit(h, doc, t, changed) ==
    IF ~changed THEN [h EXCEPT !.phase = "edit"]
    ELSE [h EXCEPT !.tl = Append(SubSeq(h.tl, 1, h.pos), doc),
                   !.pos = h.pos + 1,
                   !.merged = h.merged \/ h.at = t,
                   !.at = t,
                   !.phase = "edit"]

\* a run of undo() calls starts after edits, with nothing left to redo
HistUndo(h, before, redoEmpty) ==
    [h EXCEPT !.pos = IF h.pos > 1 THEN h.pos - 1 ELSE 1,
              !.phase = IF h.phase = "undo" \/ (h.phase = "edit" /\ redoEmpty)
                        THEN "undo" ELSE "mixed",
              !.mark = IF h.phase = "edit" THEN before ELSE h.mark]

HistRedo(h, undoEmpty) ==
    [h EXCEPT !.pos = IF h.pos < Len(h.tl) THEN h.pos + 1 ELSE h.pos,
              !.phase = IF h.phase = "redo" \/ (h.phase = "undo" /\ undoEmpty)
                        THEN "redo" ELSE "mixed"]

\* write a world back to the variables
Commit(w, op, f, h) ==
    /\ deck' = w.deck
    /\ textCounter' = w.ctr
    /\ items' = w.items
    /\ alive' = w.alive
    /\ deckUndoManager' = w.dm
    /\ fragmentRegistry' = w.reg
    /\ pendingPayloads' = w.queue
    /\ trace' = [op |-> op, f |-> f, log |-> w.log, pre |-> Depths, prev |-> PrevOf(trace)]
    /\ hist' = h
    /\ steps' = steps + 1
    /\ historySubscribers' = emitStackEvents(historySubscribers, StackEvents(w.log))
    /\ UNCHANGED <<mounted, now>>

\* a transactDeck that forgets the origin tag
transactDeckUntagged(w, d, changed, fins) ==
    LET before == [deck |-> w.deck, ctr |-> w.ctr]
        w1 == [w EXCEPT !.deck = d]
    IN transact(w1, Transaction(NullOrigin, before,
                                [deck |-> d, ctr |-> w.ctr], changed, fins, {}, "null"))

\* transactDeck(doc, fn): the body's result d, changed when it ran a write
transactDeck(w, d, changed, fins) ==
    LET before == [deck |-> w.deck, ctr |-> w.ctr]
        w1 == [w EXCEPT !.deck = d]
    IN transact(w1, Transaction(DECK_HISTORY_ORIGIN, before,
                                [deck |-> d, ctr |-> w.ctr], changed, fins, {}, "null"))

StoreCommit(w, op, changed) ==
    Commit(w, op, "doc", HistEdit(hist, DocStateOf(w.deck, w.items, w.alive), now, changed))

addSlide(sid) ==
    /\ steps < MaxSteps
    /\ \E w \in {transactDeck(World, addSlideBody(deck, sid), TRUE, {})} :
          StoreCommit(w, "addSlide", TRUE)

\* deleteSlide: the slide id asked for is logged (ghost), the returned
\* fallback is kept in the operation record
deleteSlide(sid) ==
    /\ steps < MaxSteps
    /\ LET changed == ~deck.inited \/ deleteSlideFinds(deck, sid)
           call == Event("call", sid, DECK_HISTORY_ORIGIN, "deleteSlide", FALSE,
                         NoPayload, NoPayload, pendingPayloads, pendingPayloads)
       IN \E w \in {transactDeck(Log(World, call), deleteSlideBody(deck, sid),
                                 changed, {})} :
            Commit(w, "deleteSlide", deleteSlideFallback(deck, sid),
                   HistEdit(hist, DocStateOf(w.deck, w.items, w.alive), now, changed))

\* appendObjectToSlide of a text object; ensureTextFragmentInitialized seeds
\* the fragment inside the same transaction when it is empty
appendObjectToSlide(sid, o, x, y) ==
    /\ steps < MaxSteps
    /\ LET d == appendObjectBody(deck, sid, o, x, y)
           f == getTextFragmentKey(o)
           found == deck.slides[sid].present
           seed == found /\ Paragraphs(items, alive, f) = {}
           id == Len(items) + 1
           changed == ~deck.inited \/ found
           w == IF seed
                THEN [World EXCEPT !.items = Append(@, [f |-> f, parent |-> 0]),
                                   !.alive = @ \cup {id}]
                ELSE World
       IN /\ seed => Len(items) < MaxItems
          /\ \E w1 \in {transactDeck(w, d, changed, IF seed THEN {id} ELSE {})} :
                StoreCommit(w1, "appendObjectToSlide", changed)

updateObjectPosition(sid, o, x, y) ==
    /\ steps < MaxSteps
    /\ LET d == updateObjectPositionBody(deck, sid, o, x, y)
           changed == \/ ~deck.inited
                      \/ findObject(deck, sid, o).present
                      \/ WritesContainers(deck, sid)
       IN \E w \in {transactDeck(World, d, changed, {})} :
            StoreCommit(w, "updateObjectPosition", changed)

deleteObjectFromSlide(sid, o) ==
    /\ steps < MaxSteps
    /\ LET d == deleteObjectBody(deck, sid, o)
           changed == \/ ~deck.inited
                      \/ (deck.slides[sid].present /\ deck.slides[sid].objects[o].present)
                      \/ WritesContainers(deck, sid)
       IN \E w \in {transactDeck(World, d, changed, {})} :
            StoreCommit(w, "deleteObjectFromSlide", changed)

\* the slides serializeDeck walks, each handed to ensureSlideContainers
RECURSIVE serializeDeckWrites(_, _)
serializeDeckWrites(d, order) ==
    IF order = <<>> THEN d
    ELSE serializeDeckWrites(WithSlideContainers(d, Head(order)), Tail(order))

\* useDeckValue builds its snapshot: serializeDeck reads every slide through
\* ensureSlideContainers, whose ySlide.set runs outside doc.transact, so Yjs
\* wraps it in a transaction of origin null
RenderDeck ==
    /\ steps < MaxSteps
    /\ LET d == serializeDeckWrites(deck, deck.slideOrder)
           cur == [deck |-> deck, ctr |-> textCounter]
       IN IF d = deck
          THEN Commit(World, "render", "doc", hist)
          ELSE \E w \in {transact([World EXCEPT !.deck = d],
                                  Transaction(NullOrigin, cur,
                                              [deck |-> d, ctr |-> textCounter],
                                              TRUE, {}, {}, "null"))} :
                 Commit(w, "render", "doc", hist)

\* the editing surface bound to fragment f inserts one character: a
\* transaction of origin ySyncPluginKey on the fragment
TextEdit(f) ==
    /\ steps < MaxSteps
    /\ mounted[f]
    /\ Len(items) < MaxItems
    /\ Paragraphs(items, alive, f) # {}
    /\ LET par == CHOOSE i \in Paragraphs(items, alive, f) : TRUE
           id == Len(items) + 1
           cur == [deck |-> deck, ctr |-> textCounter]
           w1 == [World EXCEPT !.items = Append(@, [f |-> f, parent |-> par]),
                               !.alive = @ \cup {id}]
       IN \E w2 \in {transact(w1, Transaction(ySyncPluginKey, cur, cur, FALSE,
                                              {id}, {}, "null"))} :
            Commit(w2, "edit", f,
                   HistEdit(hist, DocStateOf(w2.deck, w2.items, w2.alive), now, TRUE))

\* a write that reaches the document from outside the store actions and
\* the editors, as one transaction of the given origin: one character
\* inserted into fragment target, or, for target "deck", object t2 of slide
\* s1 moved to x = 1
ExternalTransaction(op, origin, target) ==
    /\ steps < MaxSteps
    /\ target \in Frags => /\ Len(items) < MaxItems
                           /\ Paragraphs(items, alive, target) # {}
    /\ LET id == Len(items) + 1
           cur == [deck |-> deck, ctr |-> textCounter]
           w1 == IF target \in Frags
                 THEN [World EXCEPT
                         !.items = Append(@, [f |-> target,
                                              parent |-> CHOOSE i \in Paragraphs(items, alive, target) : TRUE]),
                         !.alive = @ \cup {id}]
                 ELSE [World EXCEPT !.deck = updateObjectPositionBody(deck, "s1", "t2", 1, 0)]
           tr == IF target \in Frags
                 THEN Transaction(origin, cur, cur, FALSE, {id}, {}, "null")
                 ELSE Transaction(origin, cur, [deck |-> w1.deck, ctr |-> textCounter],
                                  TRUE, {}, {}, "null")
       IN \E w2 \in {transact(w1, tr)} :
            Commit(w2, op, target,
                   HistEdit(hist, DocStateOf(w2.deck, w2.items, w2.alive), now, TRUE))

\* an update of a remote peer, applied by the Liveblocks provider
RemoteTransaction(target) == ExternalTransaction("remote", ProviderOrigin, target)

\* a write on a shared type outside doc.transact: Yjs wraps it in a
\* transaction whose origin is null
UntaggedTransaction(target) == ExternalTransaction("untagged", NullOrigin, target)

\* a transaction tagged with the exported TEXT_HISTORY_ORIGIN that no push
\* listener opened: it bumps the bridge counter and enqueues nothing
BareRelay ==
    /\ steps < MaxSteps
    /\ LET before == [deck |-> deck, ctr |-> textCounter]
           after == [deck |-> deck, ctr |-> textCounter + 1]
       IN \E w \in {transact([World EXCEPT !.ctr = @ + 1],
                              Transaction(TEXT_HISTORY_ORIGIN, before, after,
                                          TRUE, {}, {}, "null"))} :
            Commit(w, "bareRelay", "doc",
                   HistEdit(hist, DocStateOf(w.deck, w.items, w.alive), now, FALSE))

\* useDeckHistory().undo
DeckUndo ==
    /\ steps < MaxSteps
    /\ \E w \in {deckPop(World, "undo")} :
          Commit(w, "undo", "doc", HistUndo(hist, DocState, ~canRedo))

\* useDeckHistory().redo
DeckRedo ==
    /\ steps < MaxSteps
    /\ \E w \in {deckPop(World, "redo")} :
          Commit(w, "redo", "doc", HistRedo(hist, ~canUndo))

\* getTextUndoManager(doc, f).undo() / .redo(), called by the application
\* itself and not by the deck manager's pop handler
FragCall(f, kind) ==
    /\ steps < MaxSteps
    /\ fragmentRegistry[f].exists
    /\ \E w \in {fragPop(World, f, kind)} :
          Commit(w, IF kind = "undo" THEN "fragUndo" ELSE "fragRedo", f,
                 HistEdit(hist, DocStateOf(w.deck, w.items, w.alive), now, TRUE))

FragUndo(f) == FragCall(f, "undo")

FragRedo(f) == FragCall(f, "redo")

\* getTextUndoManager(doc, fragmentKey)
getTextUndoManager(f) ==
    /\ fragmentRegistry[f].exists => steps < MaxSteps
    /\ fragmentRegistry' = getFragmentHistory(World, f).reg
    /\ steps' = IF fragmentRegistry[f].exists THEN steps + 1 ELSE steps
    /\ trace' = [op |-> "getTextUndoManager", f |-> f, log |-> <<>>, pre |-> Depths, prev |-> PrevOf(trace)]
    /\ UNCHANGED <<deck, textCounter, items, alive, deckUndoManager, pendingPayloads,
                   mounted, now, hist,
                   historySubscribers>>

\* a resolution that falls back to the field name without a document
resolveFragmentLenient(fragment, document, field) ==
    IF fragment # "none" THEN fragment ELSE field

\* options.fragment ?? options.document?.getXmlFragment(field); "none" is
\* an absent option or an unresolved fragment
resolveFragment(fragment, document, field) ==
    IF fragment # "none" THEN fragment
    ELSE IF document THEN field
    ELSE "none"

\* createSharedCollaborationPlugins(options): throws when no fragment can be
\* resolved, else builds the sync plugin and the undo plugin; the managers
\* are first touched when a view is created (MountEditor)
createSharedCollaborationPlugins(fragment, document, field) ==
    /\ steps < MaxSteps
    /\ steps' = steps + 1
    /\ LET resolved == resolveFragment(fragment, document,
                                       IF field = "none" THEN "default" ELSE field)
           call == Event("createPlugins", fragment,
                         IF document THEN "document" ELSE "none",
                         IF resolved = "none" THEN "error" ELSE "plugins",
                         FALSE, NoPayload, NoPayload, pendingPayloads, pendingPayloads)
           plugin(name) == Event("plugin", resolved, name, "created", FALSE,
                                 NoPayload, NoPayload, pendingPayloads, pendingPayloads)
       IN trace' = [op |-> "createPlugins", f |-> resolved,
                    log |-> IF resolved = "none" THEN <<call>>
                            ELSE <<call, plugin("yUndoPlugin"), plugin("ySyncPlugin")>>,
                    pre |-> Depths, prev |-> PrevOf(trace)]
    /\ UNCHANGED <<deck, textCounter, items, alive, deckUndoManager, fragmentRegistry,
                   pendingPayloads, mounted, now, hist,
                   historySubscribers>>

\* the view of the undo plugin is created on the manager of fragment f: it
\* adds ySyncPluginKey to the tracked origins and registers its listeners
MountEditor(f) ==
    /\ fragmentRegistry[f].exists
    /\ ~mounted[f]
    /\ mounted' = [mounted EXCEPT ![f] = TRUE]
    /\ fragmentRegistry' = [fragmentRegistry EXCEPT
                              ![f].trackedOrigins = @ \cup {ySyncPluginKey}]
    /\ trace' = [op |-> "mount", f |-> f, log |-> <<>>, pre |-> Depths, prev |-> PrevOf(trace)]
    /\ UNCHANGED <<deck, textCounter, items, alive, deckUndoManager, pendingPayloads,
                   now, steps, hist,
                   historySubscribers>>

\* a teardown that clears the history of the manager it was bound to
viewDestroyClears(um) == [um EXCEPT !.undoStack = <<>>, !.redoStack = <<>>]

\* destroy() of the overridden plugin view: the listeners are removed, the
\* manager and its stacks are kept
viewDestroy(um) == um

\* the editing surface of fragment f is torn down
DestroyEditor(f) ==
    /\ mounted[f]
    /\ mounted' = [mounted EXCEPT ![f] = FALSE]
    /\ fragmentRegistry' = [fragmentRegistry EXCEPT ![f] = viewDestroy(@)]
    /\ trace' = [op |-> "destroy", f |-> f, log |-> <<>>, pre |-> Depths, prev |-> PrevOf(trace)]
    /\ UNCHANGED <<deck, textCounter, items, alive, deckUndoManager, pendingPayloads,
                   now, steps, hist,
                   historySubscribers>>

\* time passes by one capture timeout
Tick ==
    /\ now < CaptureTimeout * (MaxTicks + 1)
    /\ now' = now + CaptureTimeout
    /\ trace' = [op |-> "tick", f |-> "doc", log |-> <<>>, pre |-> Depths, prev |-> PrevOf(trace)]
    /\ UNCHANGED <<deck, textCounter, items, alive, deckUndoManager, fragmentRegistry,
                   pendingPayloads, mounted, steps, hist,
                   historySubscribers>>

\* useDeckUndoManager: a component asks for the deck manager of the document
useDeckUndoManager ==
    /\ steps < MaxSteps
    /\ steps' = steps + 1
    /\ deckUndoManager' = getOrCreateUndoManager(deckUndoManager)
    /\ trace' = [op |-> "useDeckUndoManager", f |-> "doc", log |-> <<>>,
                 pre |-> Depths, prev |-> PrevOf(trace)]
    /\ UNCHANGED <<deck, textCounter, items, alive, fragmentRegistry, pendingPayloads,
                   mounted, now, hist, historySubscribers>>

\* SlideTextElement of object o is rendered: its effect adds the text
\* fragment to the scope of the deck manager, and its editor is created on
\* the deck manager, whose view adds ySyncPluginKey to the tracked origins
SlideTextElement(o) ==
    /\ steps < MaxSteps
    /\ getTextFragmentKey(o) \notin deckUndoManager.scope
    /\ steps' = steps + 1
    /\ deckUndoManager' =
         [deckUndoManager EXCEPT !.scope = @ \cup {getTextFragmentKey(o)},
                                 !.trackedOrigins = @ \cup {ySyncPluginKey}]
    /\ trace' = [op |-> "SlideTextElement", f |-> getTextFragmentKey(o), log |-> <<>>,
                 pre |-> Depths, prev |-> PrevOf(trace)]
    /\ UNCHANGED <<deck, textCounter, items, alive, fragmentRegistry, pendingPayloads,
                   mounted, now, hist, historySubscribers>>

\* the editor of a rendered SlideTextElement inserts one character: a
\* transaction of origin ySyncPluginKey on the fragment
SlideTextEdit(f) ==
    /\ steps < MaxSteps
    /\ f \in deckUndoManager.scope
    /\ Len(items) < MaxItems
    /\ Paragraphs(items, alive, f) # {}
    /\ LET par == CHOOSE i \in Paragraphs(items, alive, f) : TRUE
           id == Len(items) + 1
           cur == [deck |-> deck, ctr |-> textCounter]
           w1 == [World EXCEPT !.items = Append(@, [f |-> f, parent |-> par]),
                               !.alive = @ \cup {id}]
       IN \E w2 \in {transact(w1, Transaction(ySyncPluginKey, cur, cur, FALSE,
                                              {id}, {}, "null"))} :
            Commit(w2, "edit", f,
                   HistEdit(hist, DocStateOf(w2.deck, w2.items, w2.alive), now, TRUE))

\* subscribe(callback) of useDeckHistory: a new subscriber with its own flag
Subscribe ==
    /\ steps < MaxSteps
    /\ historySubscribers.count < MaxSubs
    /\ steps' = steps + 1
    /\ historySubscribers' =
         [historySubscribers EXCEPT !.count = @ + 1,
                                    !.subs[historySubscribers.count + 1].active = TRUE]
    /\ UNCHANGED <<deck, textCounter, items, alive, deckUndoManager, fragmentRegistry,
                   pendingPayloads, mounted, now, trace, hist>>

\* the function subscribe returned: the three listeners are removed
Unsubscribe(g) ==
    /\ steps < MaxSteps
    /\ historySubscribers.subs[g].active
    /\ steps' = steps + 1
    /\ historySubscribers' = [historySubscribers EXCEPT !.subs[g].active = FALSE]
    /\ UNCHANGED <<deck, textCounter, items, alive, deckUndoManager, fragmentRegistry,
                   pendingPayloads, mounted, now, trace, hist>>

\* the oldest queued microtask runs: the flag is reset, the snapshot is
\* dropped and the callback is called
RunMicrotask ==
    /\ historySubscribers.microtasks # <<>>
    /\ LET g == Head(historySubscribers.microtasks)
       IN historySubscribers' =
            [historySubscribers EXCEPT
               !.microtasks = Tail(@),
               !.subs[g].scheduled = FALSE,
               !.subs[g].seen = 0,
               !.last = [g |-> g, seen |-> historySubscribers.subs[g].seen]]
    /\ UNCHANGED <<deck, textCounter, items, alive, deckUndoManager, fragmentRegistry,
                   pendingPayloads, mounted, now, steps, trace, hist>>

\* ------------------------------------------------------- specifications
MountedManagerTrackingProvider ==
    attachLocalListeners(NewUndoManager({NullOrigin, ySyncPluginKey, ProviderOrigin}))

\* the manager of a fragment whose editor is mounted
MountedManager == attachLocalListeners(NewUndoManager({NullOrigin, ySyncPluginKey}))

InitHist(doc) ==
    [tl |-> <<doc>>, pos |-> 1, merged |-> FALSE, at |-> 0, phase |-> "edit", mark |-> doc]

\* a loaded deck with two seeded text fragments and a fresh deck manager
InitDoc ==
    /\ deck = LoadedDeck
    /\ textCounter = 0
    /\ items = <<[f |-> "text-t1", parent |-> 0], [f |-> "text-t2", parent |-> 0]>>
    /\ alive = {1, 2}
    /\ deckUndoManager = getOrCreateUndoManager(NoManager)

\* every fragment has its manager and a mounted editing surface
Init ==
    /\ InitDoc
    /\ mounted = [f \in Frags |-> TRUE]
    /\ fragmentRegistry = [f \in Frags |-> MountedManager]
    /\ pendingPayloads = <<>>
    /\ now = CaptureTimeout
    /\ steps = 0
    /\ trace = [op |-> "init", f |-> "doc", log |-> <<>>, pre |-> Depths, prev |-> NoPrev]
    /\ hist = InitHist(DocState)
    /\ historySubscribers = NoSubscribers

Next ==
    \/ \E f \in Frags : TextEdit(f)
    \/ updateObjectPosition("s1", "t1", 1, 0)
    \/ DeckUndo
    \/ DeckRedo
    \/ Tick

Spec == Init /\ [][Next]_vars

\* the editing surfaces come and go: no fragment manager exists at first
InitMount ==
    /\ InitDoc
    /\ mounted = [f \in Frags |-> FALSE]
    /\ fragmentRegistry = [f \in Frags |-> NoManager]
    /\ pendingPayloads = <<>>
    /\ now = CaptureTimeout
    /\ steps = 0
    /\ trace = [op |-> "init", f |-> "doc", log |-> <<>>, pre |-> Depths, prev |-> NoPrev]
    /\ hist = InitHist(DocState)
    /\ historySubscribers = NoSubscribers

MountFrags == {"text-t1"}
NextMount ==
    \/ \E f \in Frags : getTextUndoManager(f)
    \/ \E f \in MountFrags : MountEditor(f)
    \/ \E f \in MountFrags : DestroyEditor(f)
    \/ \E f \in Frags : TextEdit(f)
    \/ DeckUndo
    \/ DeckRedo
    \/ Tick

SpecMount == InitMount /\ [][NextMount]_vars

\* structural edits only, from an empty document
InitStore ==
    /\ deck = EmptyDeck
    /\ textCounter = 0
    /\ items = <<>>
    /\ alive = {}
    /\ deckUndoManager = getOrCreateUndoManager(NoManager)
    /\ mounted = [f \in Frags |-> FALSE]
    /\ fragmentRegistry = [f \in Frags |-> NoManager]
    /\ pendingPayloads = <<>>
    /\ now = CaptureTimeout
    /\ steps = 0
    /\ trace = [op |-> "init", f |-> "doc", log |-> <<>>, pre |-> Depths, prev |-> NoPrev]
    /\ hist = InitHist(DocState)
    /\ historySubscribers = NoSubscribers

\* the slide the object actions work on
StoreSlides == {"s1"}

NextStore ==
    \/ \E s \in StoreSlides : addSlide(s)
    \/ \E s \in StoreSlides, o \in ObjIds : appendObjectToSlide(s, o, 0, 0)
    \/ \E s \in StoreSlides, o \in ObjIds : updateObjectPosition(s, o, 1, 0)
    \/ \E s \in StoreSlides, o \in ObjIds : deleteObjectFromSlide(s, o)
    \/ DeckUndo
    \/ DeckRedo
    \/ Tick

SpecStore == InitStore /\ [][NextStore]_vars

\* the loaded document with both editors mounted, receiving writes of remote
\* peers and writes made outside any tagged transaction
SyncTargets == {"text-t1", "deck"}

NextSync ==
    \/ TextEdit("text-t1")
    \/ updateObjectPosition("s1", "t1", 1, 0)
    \/ \E t \in SyncTargets : RemoteTransaction(t)
    \/ \E t \in SyncTargets : UntaggedTransaction(t)
    \/ Tick

SpecSync == Init /\ [][NextSync]_vars

\* the loaded document with both editors mounted; the application calls
\* undo() and redo() on the deck manager and on the fragment managers
NextFrag ==
    \/ \E f \in Frags : TextEdit(f)
    \/ DeckUndo
    \/ DeckRedo
    \/ \E f \in Frags : FragUndo(f)
    \/ \E f \in Frags : FragRedo(f)
    \/ Tick

SpecFrag == Init /\ [][NextFrag]_vars

\* the pop handler's input: the deck undo stack holds one relay item whose
\* payload names a fragment key that has no registry entry; the bridge's
\* own operations never build such an item, so it is given
OrphanItem(f) ==
    [StackItem(Transaction(TEXT_HISTORY_ORIGIN, [deck |-> LoadedDeck, ctr |-> 0],
                           [deck |-> LoadedDeck, ctr |-> 1], TRUE, {}, {}, f))
       EXCEPT !.meta = [fragmentKey |-> f]]

InitOrphan ==
    /\ deck = LoadedDeck
    /\ textCounter = 1
    /\ items = <<[f |-> "text-t1", parent |-> 0], [f |-> "text-t2", parent |-> 0]>>
    /\ alive = {1, 2}
    /\ \E f \in Frags :
         deckUndoManager = [getOrCreateUndoManager(NoManager) EXCEPT
                              !.undoStack = <<OrphanItem(f)>>]
    /\ mounted = [f \in Frags |-> FALSE]
    /\ fragmentRegistry = [f \in Frags |-> NoManager]
    /\ pendingPayloads = <<>>
    /\ now = CaptureTimeout
    /\ steps = 0
    /\ trace = [op |-> "init", f |-> "doc", log |-> <<>>, pre |-> Depths, prev |-> NoPrev]
    /\ hist = InitHist(DocState)
    /\ historySubscribers = NoSubscribers

NextOrphan ==
    \/ \E f \in Frags : getTextUndoManager(f)
    \/ \E f \in MountFrags : MountEditor(f)
    \/ \E f \in MountFrags : TextEdit(f)
    \/ DeckUndo
    \/ DeckRedo
    \/ Tick

SpecOrphan == InitOrphan /\ [][NextOrphan]_vars

\* the loaded document with both editors mounted and a caller that tags its
\* own transactions with TEXT_HISTORY_ORIGIN
NextRelay ==
    \/ \E f \in Frags : TextEdit(f)
    \/ BareRelay
    \/ DeckUndo
    \/ DeckRedo
    \/ Tick

SpecRelay == Init /\ [][NextRelay]_vars

\* editors are set up on the loaded document, with every combination of the
\* fragment, document and field options
NextSetup ==
    \/ \E fragment \in {"none", "text-t1"}, document \in BOOLEAN,
          field \in {"none", "text-t2"} :
            createSharedCollaborationPlugins(fragment, document, field)
    \/ \E f \in Frags : getTextUndoManager(f)
    \/ \E f \in MountFrags : MountEditor(f)
    \/ \E f \in MountFrags : TextEdit(f)
    \/ Tick

SpecSetup == InitMount /\ [][NextSetup]_vars

\* components using useDeckHistory subscribe and unsubscribe while the
\* deck is edited and the history is walked; microtasks run between the
\* operations, and the queue always drains
NextHistory ==
    \/ TextEdit("text-t1")
    \/ DeckUndo
    \/ DeckRedo
    \/ Subscribe
    \/ \E g \in 1..MaxSubs : Unsubscribe(g)
    \/ RunMicrotask
    \/ Tick

SpecHistory == Init /\ [][NextHistory]_vars

SpecHistoryLive == SpecHistory /\ WF_vars(RunMicrotask)

\* the document comes from the provider as this code or as an older writer
\* stored it; it is rendered, edited and its objects are moved
InitRender ==
    /\ deck \in {LoadedDeck, LegacyDeck}
    /\ textCounter = 0
    /\ items = <<[f |-> "text-t1", parent |-> 0], [f |-> "text-t2", parent |-> 0]>>
    /\ alive = {1, 2}
    /\ deckUndoManager = getOrCreateUndoManager(NoManager)
    /\ mounted = [f \in Frags |-> TRUE]
    /\ fragmentRegistry = [f \in Frags |-> MountedManager]
    /\ pendingPayloads = <<>>
    /\ now = CaptureTimeout
    /\ steps = 0
    /\ trace = [op |-> "init", f |-> "doc", log |-> <<>>, pre |-> Depths, prev |-> NoPrev]
    /\ hist = InitHist(DocState)
    /\ historySubscribers = NoSubscribers

NextRender ==
    \/ RenderDeck
    \/ updateObjectPosition("s1", "t1", 1, 0)
    \/ TextEdit("text-t1")
    \/ Tick

SpecRender == InitRender /\ [][NextRender]_vars

\* components ask for the deck manager again while the deck history is in use
NextManager ==
    \/ useDeckUndoManager
    \/ TextEdit("text-t1")
    \/ updateObjectPosition("s1", "t1", 1, 0)
    \/ DeckUndo
    \/ DeckRedo
    \/ Tick

SpecManager == Init /\ [][NextManager]_vars

\* the application as its components wire it: the text elements of the
\* loaded deck are rendered and edited, objects are moved, the deck history
\* is walked
NextApp ==
    \/ \E o \in ObjIds : SlideTextElement(o)
    \/ \E f \in Frags : SlideTextEdit(f)
    \/ updateObjectPosition("s1", "t1", 1, 0)
    \/ DeckUndo
    \/ DeckRedo
    \/ Tick

SpecApp == InitMount /\ [][NextApp]_vars

\* slides are added and deleted on a fresh document, and the deck history
\* is walked
NextSlides ==
    \/ \E s \in SlideIds : addSlide(s)
    \/ \E s \in SlideIds : deleteSlide(s)
    \/ DeckUndo
    \/ DeckRedo
    \/ Tick

SpecSlides == InitStore /\ [][NextSlides]_vars

\* the store actions aimed at slide s1 and its object t1, on a document
\* that starts empty
NextTargets ==
    \/ addSlide("s1")
    \/ deleteSlide("s1")
    \/ appendObjectToSlide("s1", "t1", 0, 0)
    \/ updateObjectPosition("s1", "t1", 1, 0)
    \/ deleteObjectFromSlide("s1", "t1")
    \/ DeckUndo
    \/ DeckRedo
    \/ Tick

SpecTargets == InitStore /\ [][NextTargets]_vars

\* ------------------------------------------------------------ properties
\* C1: a text edit to fragment f that starts a new burst of f's manager adds
\* exactly one entry to the deck undo stack, carrying {fragmentKey: f}, and
\* exactly one entry to the undo stack of f's manager; canUndo holds after it
C1OneEntryPerEdit ==
    [][\A f \in Frags :
         (/\ trace'.op = "edit"
          /\ trace'.f = f
          /\ LET um == fragmentRegistry[f]
             IN \/ um.lastChange = 0
                \/ now - um.lastChange >= CaptureTimeout
                \/ um.undoStack = <<>>)
         => /\ Len(deckUndoManager'.undoStack) = Len(deckUndoManager.undoStack) + 1
            /\ Last(deckUndoManager'.undoStack).meta = [fragmentKey |-> f]
            /\ Len(fragmentRegistry'[f].undoStack) = Len(fragmentRegistry[f].undoStack) + 1
            /\ canUndo']_vars

\* C2: a deck undo() right after a text edit to f that f's manager recorded
\* as an entry restores the text of f from before the edit and leaves canRedo
\* true; the deck redo() that follows restores the text from after the edit
C2UndoRedoRestoresText ==
    /\ (/\ trace.op = "undo"
        /\ trace.prev.op = "edit"
        /\ \E i \in DOMAIN trace.prev.log : trace.prev.log[i].ev = "fragPush")
         => /\ DocState.text[trace.prev.f] = hist.tl[hist.pos].text[trace.prev.f]
            /\ canRedo
    /\ (/\ trace.op = "redo"
        /\ trace.prev.op = "undo"
        /\ trace.prev.pop = "edit"
        /\ trace.prev.ppush)
         => DocState.text[trace.prev.pf] = hist.tl[hist.pos].text[trace.prev.pf]

\* C3: when every user action falls in a capture window of its own, the
\* document after any run of deck undo() and redo() calls is the state of the
\* linear timeline of actions at the position the calls moved to
C3LinearTimeline ==
    ~hist.merged => DocState = hist.tl[hist.pos]

\* C4: after structural edits, deck undo() until canUndo is false gives the
\* initial serialized document, and redo() from there until canRedo is false
\* gives the document that held before the first undo
C4RoundTrip ==
    /\ (hist.phase = "undo" /\ ~canUndo) => DocState = hist.tl[1]
    /\ (hist.phase = "redo" /\ ~canRedo) => DocState = hist.mark

\* two edits were undone down to the initial document and redone to the end
C4Witness ==
    /\ hist.phase = "redo"
    /\ ~canRedo
    /\ trace.op = "redo"
    /\ Len(hist.tl) >= 3
    /\ hist.mark # hist.tl[1]
    /\ DocState = hist.mark

\* C5: tearing down the editing surface of a fragment, and mounting a new
\* one on the same manager, changes neither the redo stack of that manager
\* nor the redo stack of the deck manager
C5TeardownKeepsRedo ==
    [][trace'.op \in {"destroy", "mount"}
         => /\ deckUndoManager'.redoStack = deckUndoManager.redoStack
            /\ fragmentRegistry'[trace'.f].redoStack = fragmentRegistry[trace'.f].redoStack
            /\ fragmentRegistry'[trace'.f].undoStack = fragmentRegistry[trace'.f].undoStack]_vars

\* an editor was remounted after a deck undo(): both redo stacks are non-empty
C5Witness ==
    /\ trace.op = "mount"
    /\ trace.prev.op = "destroy"
    /\ trace.prev.pop = "undo"
    /\ canRedo
    /\ Len(fragmentRegistry[trace.f].redoStack) > 0

\* C6: a deck undo() of a text-edit entry followed by a deck redo() of it
\* returns the depth of the deck undo stack and the depths of the fragment
\* undo stacks to their values before the undo
C6UndoRedoDepth ==
    (/\ trace.op = "redo"
     /\ trace.prev.op = "undo"
     /\ \E i \in DOMAIN trace.prev.log :
          trace.prev.log[i].ev = "popped" /\ trace.prev.log[i].meta # NoPayload
     /\ \E i \in DOMAIN trace.log :
          trace.log[i].ev = "popped" /\ trace.log[i].meta # NoPayload)
    => /\ Len(deckUndoManager.undoStack) = trace.prev.pre.dU
       /\ \A f \in Frags : Len(fragmentRegistry[f].undoStack) = trace.prev.pre.fU[f]

\* C7: every deck stack item that carries a payload carries the key of the
\* fragment whose push opened the relay transaction the item was made from
C7PayloadNamesSource ==
    \A i \in DOMAIN deckUndoManager.undoStack \cup DOMAIN deckUndoManager.redoStack :
        /\ i \in DOMAIN deckUndoManager.undoStack
             => LET it == deckUndoManager.undoStack[i]
                IN it.meta # NoPayload => it.meta.fragmentKey = it.src
        /\ i \in DOMAIN deckUndoManager.redoStack
             => LET it == deckUndoManager.redoStack[i]
                IN it.meta # NoPayload => it.meta.fragmentKey = it.src

\* C8: a deck pop of an item with payload {fragmentKey: f} invokes undo() of
\* f's manager exactly once on an undo, redo() exactly once on a redo, and no
\* other fragment call; a pop of an item without payload invokes none
C8PopDelegatesOnce ==
    LET log == trace.log
        pops == {i \in DOMAIN log : log[i].ev = "popped"}
        calls == {i \in DOMAIN log : log[i].ev = "fragCall"}
    IN /\ pops = {} => calls = {}
       /\ pops # {} => trace.op \in {"undo", "redo"}
       /\ \A i \in pops :
            /\ pops = {i}
            /\ log[i].type = trace.op
            /\ IF log[i].meta = NoPayload THEN calls = {}
               ELSE /\ Cardinality(calls) = 1
                    /\ \A j \in calls : /\ j > i
                                        /\ log[j].f = log[i].meta.fragmentKey
                                        /\ log[j].type = trace.op

\* a deck redo() delegated to a fragment right after a delegated deck undo()
C8Witness ==
    /\ trace.op = "redo"
    /\ trace.prev.op = "undo"
    /\ \E j \in DOMAIN trace.log :
         trace.log[j].ev = "fragCall" /\ trace.log[j].type = "redo"
    /\ \E j \in DOMAIN trace.prev.log :
         trace.prev.log[j].ev = "fragCall" /\ trace.prev.log[j].type = "undo"
    /\ Len(fragmentRegistry[trace.prev.pf].undoStack) > 0

\* C9: a push on a fragment manager made by the manager's own undo() or
\* redo() leaves the pending queue alone and opens no relay transaction; any
\* other push appends the fragment's payload
C9ReplayPushesEnqueueNothing ==
    \A i \in DOMAIN trace.log :
        trace.log[i].ev = "fragPush"
          => IF trace.log[i].busy
             THEN trace.log[i].qa = trace.log[i].qb /\ trace.log[i].meta = NoPayload
             ELSE trace.log[i].qa = Append(trace.log[i].qb, [fragmentKey |-> trace.log[i].f])

\* C10: a push the deck manager makes while it is undoing or redoing gets
\* the payload of the item being processed and leaves the pending queue
\* alone, so the entry a deck undo() or redo() moves to the other stack
\* carries the payload of the entry it popped
C10ReplayKeepsPayload ==
    LET log == trace.log
    IN /\ \A i \in DOMAIN log :
            (log[i].ev = "deckPush" /\ log[i].busy)
              => /\ log[i].meta = log[i].curr
                 /\ log[i].qa = log[i].qb
       /\ \A i \in DOMAIN log :
            log[i].ev = "popped"
              => /\ trace.op = "undo"
                   => /\ Len(deckUndoManager.redoStack) = trace.pre.dR + 1
                      /\ deckUndoManager.redoStack[trace.pre.dR + 1].meta = log[i].meta
                 /\ trace.op = "redo"
                   => /\ Len(deckUndoManager.undoStack) > trace.pre.dU
                      /\ deckUndoManager.undoStack[trace.pre.dU + 1].meta = log[i].meta

\* C11: a push on the deck manager for a TEXT_HISTORY_ORIGIN transaction
\* removes exactly the oldest payload of the pending queue and records it as
\* the metadata of the pushed item; a push with any other origin leaves the
\* queue as it was
C11DequeueOldest ==
    LET log == trace.log
        pushes == {i \in DOMAIN log : log[i].ev = "deckPush"}
    IN /\ \A i \in pushes :
            IF log[i].origin = TEXT_HISTORY_ORIGIN
            THEN /\ log[i].qb # <<>>
                 /\ log[i].qa = Tail(log[i].qb)
                 /\ log[i].meta = Head(log[i].qb)
            ELSE log[i].qa = log[i].qb
       /\ (trace.op = "edit" /\ pushes # {})
            => \A i \in pushes :
                 (\A j \in pushes : j <= i)
                   => /\ deckUndoManager.undoStack # <<>>
                      /\ Last(deckUndoManager.undoStack).meta = log[i].meta

\* a relay push that finds two payloads waiting and takes the older one
C11Witness ==
    \E i \in DOMAIN trace.log :
        /\ trace.log[i].ev = "deckPush"
        /\ trace.log[i].origin = TEXT_HISTORY_ORIGIN
        /\ Len(trace.log[i].qb) = 2
        /\ trace.log[i].qb[1] # trace.log[i].qb[2]
        /\ trace.log[i].meta = trace.log[i].qb[1]

\* C12: between operations, when no transaction, undo() or redo() is in
\* progress, the pending payload queue is empty
C12QueueEmptyAtRest ==
    /\ ~deckUndoManager.undoing
    /\ ~deckUndoManager.redoing
    /\ pendingPayloads = <<>>

\* C13: the pending payload queue never holds more than one payload, neither
\* between operations nor at any push inside one
C13QueueAtMostOne ==
    /\ Len(pendingPayloads) <= 1
    /\ \A i \in DOMAIN trace.log :
         Len(trace.log[i].qb) <= 1 /\ Len(trace.log[i].qa) <= 1

\* ghost: the positions of the log where the deck manager put a transaction
\* on its undo stack, as a new entry or merged into the top entry
DeckUndoCaptures ==
    {i \in DOMAIN trace.log : /\ trace.log[i].ev \in {"deckPush", "deckUpdate"}
                              /\ trace.log[i].type = "undo"}

C15SameValueNoEntry ==
    [][(trace'.op = "updateObjectPosition" /\ deck' = deck)
         => Len(deckUndoManager'.undoStack) = Len(deckUndoManager.undoStack)]_vars

\* ghost: the operation logged a push or merge on a stack, or a queue change
StackOrQueueEvents ==
    {i \in DOMAIN trace.log :
        \/ trace.log[i].ev \in {"deckPush", "deckUpdate", "fragPush"}
        \/ trace.log[i].qa # trace.log[i].qb}

\* C16: a transaction of a remote peer adds no entry to the deck manager's
\* stacks nor to any fragment manager's stacks, and neither appends to nor
\* removes from the pending payload queue
C16RemoteNotCaptured ==
    [][trace'.op = "remote"
         => /\ deckUndoManager' = deckUndoManager
            /\ fragmentRegistry' = fragmentRegistry
            /\ pendingPayloads' = pendingPayloads
            /\ StackOrQueueEvents' = {}]_vars

\* a remote insertion into text-t1 arriving while the deck manager, the
\* manager of text-t1 and the pending queue all hold something
C16Witness ==
    /\ trace.op = "remote"
    /\ trace.f = "text-t1"
    /\ DocState # hist.tl[hist.pos - 1]
    /\ deckUndoManager.undoStack # <<>>
    /\ fragmentRegistry["text-t1"].undoStack # <<>>
    /\ pendingPayloads # <<>>

\* C17: a transaction without origin tag is captured neither by the deck
\* manager nor by a fragment manager, and leaves the pending queue alone,
\* whether it changes a fragment or the deck map
C17UntaggedNotCaptured ==
    [][trace'.op = "untagged"
         => /\ deckUndoManager' = deckUndoManager
            /\ fragmentRegistry' = fragmentRegistry
            /\ pendingPayloads' = pendingPayloads
            /\ StackOrQueueEvents' = {}]_vars

\* C18: a deck undo() with an empty undo stack, and a deck redo() with an
\* empty redo stack, change nothing: the document, the deck manager with
\* both its stacks, every fragment manager and the pending queue stay as
\* they were
C18EmptyStackNoOp ==
    [][(\/ trace'.op = "undo" /\ ~canUndo
        \/ trace'.op = "redo" /\ ~canRedo)
         => /\ DocState' = DocState
            /\ <<deck, textCounter, items, alive>>' = <<deck, textCounter, items, alive>>
            /\ deckUndoManager' = deckUndoManager
            /\ fragmentRegistry' = fragmentRegistry
            /\ pendingPayloads' = pendingPayloads]_vars

\* an undo() on an empty undo stack while the redo stack, a fragment
\* manager's redo stack and the pending queue hold something
C18Witness ==
    /\ trace.op = "undo"
    /\ trace.pre.dU = 0
    /\ deckUndoManager.undoStack = <<>>
    /\ deckUndoManager.redoStack # <<>>
    /\ \E f \in Frags : fragmentRegistry[f].redoStack # <<>>
    /\ pendingPayloads # <<>>

\* C19: a push the deck manager makes on its undo stack outside undo() and
\* redo() leaves the deck redo stack empty; the pushes made during a deck
\* undo() or redo(), relay pushes of a delegated fragment undo() or redo()
\* included, keep every entry of the redo stack that was not popped
C19RedoStackClearing ==
    [][LET log == trace'.log
           pushes == {i \in DOMAIN log : log[i].ev = "deckPush"}
           old == deckUndoManager.redoStack
           new == deckUndoManager'.redoStack
       IN /\ (\E i \in pushes : ~log[i].busy /\ log[i].type = "undo") => new = <<>>
          /\ (trace'.op = "undo" /\ \E i \in pushes : log[i].busy)
               => /\ Len(new) > Len(old)
                  /\ SubSeq(new, 1, Len(old)) = old
          /\ (trace'.op = "redo" /\ \E i \in pushes : log[i].busy)
               => /\ old # <<>>
                  /\ new = Front(old)]_vars

\* a deck redo() that ran a relay push of the delegated fragment redo() and
\* left an entry on the deck redo stack
C19Witness ==
    /\ trace.op = "redo"
    /\ \E i \in DOMAIN trace.log :
         /\ trace.log[i].ev = "deckPush"
         /\ trace.log[i].origin = TEXT_HISTORY_ORIGIN
         /\ trace.log[i].busy
    /\ deckUndoManager.redoStack # <<>>

\* C20: getTextUndoManager on a key that has a manager returns that manager
\* with its stacks as they were and changes no other entry; no operation
\* removes an entry from the registry; every manager of the registry has
\* exactly one push listener
C20GetManagerIdempotent ==
    [][/\ \A f \in Frags :
            (trace'.op = "getTextUndoManager" /\ trace'.f = f)
              => /\ fragmentRegistry'[f].exists
                 /\ fragmentRegistry[f].exists => fragmentRegistry'[f] = fragmentRegistry[f]
                 /\ \A g \in Frags \ {f} : fragmentRegistry'[g] = fragmentRegistry[g]
       /\ \A f \in Frags :
            /\ fragmentRegistry[f].exists => fragmentRegistry'[f].exists
            /\ fragmentRegistry'[f].exists => fragmentRegistry'[f].listeners = 1]_vars

\* a second getTextUndoManager call on a key whose manager holds an undo
\* entry and a redo entry
C20Witness ==
    /\ trace.op = "getTextUndoManager"
    /\ trace.pre.fU[trace.f] > 0
    /\ fragmentRegistry[trace.f].undoStack # <<>>
    /\ fragmentRegistry[trace.f].redoStack # <<>>

\* ghost: the alive items of fragment f
FragmentItems(its, al, f) == {i \in al : its[i].f = f}

\* C21: the manager of fragment f gets a new stack entry only in an
\* operation that changed fragment f, and a call of its undo() or redo()
\* leaves the deck map, the bridge map and every other fragment as they were
C21FragmentScopeOnly ==
    [][\A f \in Frags :
         /\ (\/ Len(fragmentRegistry'[f].undoStack) > Len(fragmentRegistry[f].undoStack)
             \/ Len(fragmentRegistry'[f].redoStack) > Len(fragmentRegistry[f].redoStack))
              => FragmentItems(items', alive', f) # FragmentItems(items, alive, f)
         /\ (trace'.op \in {"fragUndo", "fragRedo"} /\ trace'.f = f)
              => /\ deck' = deck
                 /\ textCounter' = textCounter
                 /\ \A g \in Frags \ {f} :
                      FragmentItems(items', alive', g) = FragmentItems(items, alive, g)]_vars

\* ghost: the deck pop of this step handed the pop handler a payload naming f
PoppedPayload(t, f) ==
    \E i \in DOMAIN t.log : /\ t.log[i].ev = "popped"
                             /\ t.log[i].meta = [fragmentKey |-> f]

EmptyQueuePushes ==
    {i \in DOMAIN trace.log : /\ trace.log[i].ev = "deckPush"
                              /\ trace.log[i].origin = TEXT_HISTORY_ORIGIN
                              /\ trace.log[i].qb = <<>>}

\* C23: a deck push for a TEXT_HISTORY_ORIGIN transaction that finds the
\* pending queue empty gives the new item no payload and leaves the queue
\* empty
C23EmptyQueuePush ==
    /\ \A i \in EmptyQueuePushes :
         /\ trace.log[i].meta = NoPayload
         /\ trace.log[i].qa = <<>>
    /\ (trace.op = "bareRelay" /\ EmptyQueuePushes # {})
         => /\ deckUndoManager.undoStack # <<>>
            /\ Last(deckUndoManager.undoStack).meta = NoPayload
            /\ pendingPayloads = <<>>

\* such a push made on top of an entry that carries a payload
C23Witness ==
    /\ trace.op = "bareRelay"
    /\ EmptyQueuePushes # {}
    /\ Len(deckUndoManager.undoStack) >= 2
    /\ deckUndoManager.undoStack[Len(deckUndoManager.undoStack) - 1].meta # NoPayload

\* ghost: the step was a createSharedCollaborationPlugins call that got
\* neither a fragment nor a document
SetupWithoutFragment(t) ==
    /\ t.op = "createPlugins"
    /\ \E i \in DOMAIN t.log : /\ t.log[i].ev = "createPlugins"
                                /\ t.log[i].f = "none"
                                /\ t.log[i].origin = "none"

\* C25: createSharedCollaborationPlugins without fragment and without
\* document ends in the error, creates no plugin and leaves every history
\* manager, the registry, the pending queue and the mounted views untouched
C25SetupFailsEarly ==
    [][SetupWithoutFragment(trace')
         => /\ \A i \in DOMAIN trace'.log :
                 /\ trace'.log[i].ev # "plugin"
                 /\ trace'.log[i].ev = "createPlugins" => trace'.log[i].type = "error"
            /\ trace'.f = "none"
            /\ UNCHANGED <<deck, textCounter, items, alive, deckUndoManager,
                           fragmentRegistry, pendingPayloads, mounted>>]_vars

\* the failing call made with a field name, while a manager with an undo
\* entry is registered and its view is mounted
C25Witness ==
    /\ SetupWithoutFragment(trace)
    /\ trace.log[1].type = "error"
    /\ \E f \in Frags : /\ mounted[f]
                         /\ fragmentRegistry[f].undoStack # <<>>

\* ghost: the queued notifications of subscriber g
QueuedFor(g) ==
    {i \in DOMAIN historySubscribers.microtasks : historySubscribers.microtasks[i] = g}

\* C26: for every subscriber of useDeckHistory, the stack events of the deck
\* manager that arrive before the next microtask share one queued
\* notification, and every stack event is followed by a notification
C26OneNotificationPerBurst ==
    /\ [](\A g \in 1..MaxSubs :
            /\ Cardinality(QueuedFor(g)) <= 1
            /\ historySubscribers.subs[g].seen > 0 => QueuedFor(g) # {})
    /\ \A g \in 1..MaxSubs :
         (historySubscribers.subs[g].seen > 0) ~> (historySubscribers.subs[g].seen = 0)

\* a notification was delivered for a burst of several stack events, one of
\* them a pop, and another burst is waiting for its microtask
C26Witness ==
    /\ historySubscribers.last.seen >= 2
    /\ trace.op = "undo"
    /\ \E g \in 1..MaxSubs : /\ historySubscribers.subs[g].seen >= 2
                              /\ Cardinality(QueuedFor(g)) = 1

\* ghost: the transactions of the current operation that changed the
\* document, by origin
ChangedWith(origins) ==
    {i \in DOMAIN trace.log : /\ trace.log[i].ev = "deckSeen"
                              /\ trace.log[i].type = "changed"
                              /\ trace.log[i].origin \in origins}

\* C27: every mutation made by this code runs in exactly one tagged
\* transaction: a store action in one DECK_HISTORY_ORIGIN transaction, a
\* relay in one TEXT_HISTORY_ORIGIN transaction per enqueued payload, and
\* nothing but the editor's own transactions carries another origin
C27MutationsTagged ==
    /\ ChangedWith({NullOrigin, ProviderOrigin}) = {}
    /\ trace.op = "updateObjectPosition"
         => Cardinality(ChangedWith({DECK_HISTORY_ORIGIN})) = 1
    /\ Cardinality(ChangedWith({TEXT_HISTORY_ORIGIN}))
         = Cardinality({i \in DOMAIN trace.log : /\ trace.log[i].ev = "fragPush"
                                                  /\ trace.log[i].meta # NoPayload})

\* ghost: the deck stack items that carry a {fragmentKey} payload
PointerItems ==
    {it \in SeqToSet(deckUndoManager.undoStack) \cup SeqToSet(deckUndoManager.redoStack) :
       it.meta # NoPayload}

\* C28: a deck stack item created for a text edit holds only the pointer,
\* with no change of a fragment in its change-set; deck undo() and redo()
\* alter a fragment only through the delegated call; and the deck undo()
\* that follows a text edit reverts that edit with one step of its
\* fragment's manager, leaving the other fragments alone
C28PointerOnlyRevertedOnce ==
    /\ [](\A it \in PointerItems : it.ins = {} /\ it.del = {})
    /\ [][/\ trace'.op \in {"undo", "redo"}
             => \A f \in Frags :
                  FragmentItems(items', alive', f) # FragmentItems(items, alive, f)
                    => \E i \in DOMAIN trace'.log :
                         /\ trace'.log[i].ev = "popped"
                         /\ trace'.log[i].meta = [fragmentKey |-> f]
          /\ (trace'.op = "undo" /\ trace.op = "edit")
             => /\ Len(items) \notin alive'
                /\ Len(fragmentRegistry'[trace.f].undoStack)
                     = Len(fragmentRegistry[trace.f].undoStack) - 1
                /\ \A g \in Frags \ {trace.f} :
                     FragmentItems(items', alive', g) = FragmentItems(items, alive, g)]_vars

\* ghost: the entries of a deck stack whose payload names fragment f
EntriesFor(stack, f) ==
    {i \in DOMAIN stack : stack[i].meta = [fragmentKey |-> f]}

\* C29: for every fragment, the deck undo stack holds as many entries with
\* that fragment's payload as the fragment manager's undo stack has
\* entries, and the same for the redo stacks
C29StacksInLockstep ==
    \A f \in Frags :
      /\ Cardinality(EntriesFor(deckUndoManager.undoStack, f))
           = Len(fragmentRegistry[f].undoStack)
      /\ Cardinality(EntriesFor(deckUndoManager.redoStack, f))
           = Len(fragmentRegistry[f].redoStack)

\* C30: a repeated getOrCreateUndoManager call for the document returns the
\* manager that is already there: its undo and redo stacks, its tracked
\* origins and its single set of bridge listeners are what they were
C30SingleDeckManager ==
    [][trace'.op = "useDeckUndoManager"
         => /\ deckUndoManager' = deckUndoManager
            /\ deckUndoManager'.listeners = 1]_vars

\* the repeated call made while both stacks of the deck manager hold entries
C30Witness ==
    /\ trace.op = "useDeckUndoManager"
    /\ deckUndoManager.undoStack # <<>>
    /\ deckUndoManager.redoStack # <<>>

\* ghost: the events of one kind in the log of the current operation
EventsOf(ev) == {i \in DOMAIN trace.log : trace.log[i].ev = ev}

\* C31: however often the deck manager is registered, it carries one set of
\* bridge handlers: a deck pop runs the pop handler once and calls the
\* fragment manager at most once, for the popped payload, and every relay
\* push takes exactly one payload off the queue
C31RegisteredOnce ==
    /\ deckUndoManager.listeners = 1
    /\ Cardinality(EventsOf("popped")) <= 1
    /\ Cardinality(EventsOf("fragCall"))
         = Cardinality({i \in EventsOf("popped") : trace.log[i].meta # NoPayload})
    /\ \A i \in EventsOf("deckPush") :
         trace.log[i].origin = TEXT_HISTORY_ORIGIN
           => /\ trace.log[i].qb # <<>>
              /\ trace.log[i].qa = Tail(trace.log[i].qb)
              /\ \A j \in EventsOf("deckPush") : j # i => j - i \notin {-1, 1}

\* a delegated deck undo() right after the manager was registered again
C31Witness ==
    /\ trace.op = "undo"
    /\ trace.prev.op = "useDeckUndoManager"
    /\ EventsOf("fragCall") # {}

\* C32: the scope of the deck manager holds the bridge map and every root
\* whose key does not start with 'text-' and no text fragment root; every
\* relay transaction the deck manager sees is captured, and no transaction
\* of an editor is captured by it
C32ScopeWithoutFragments ==
    /\ {"deck", "__deckHistoryBridge"} \subseteq collectUndoScope
    /\ (collectUndoScope \cup deckUndoManager.scope) \cap Frags = {}
    /\ \A i \in EventsOf("deckSeen") :
         (trace.log[i].origin = TEXT_HISTORY_ORIGIN /\ trace.log[i].type = "changed")
           => /\ i < Len(trace.log)
              /\ trace.log[i + 1].ev \in {"deckPush", "deckUpdate"}
    /\ \A i \in EventsOf("deckPush") \cup EventsOf("deckUpdate") :
         trace.log[i].origin # ySyncPluginKey

\* ghost: the operation op is about to run on slide s1 / object t1 while
\* its target is not there
TargetMissing(op) ==
    \/ /\ op \in {"updateObjectPosition", "deleteObjectFromSlide"}
       /\ ~findObject(deck, "s1", "t1").present
    \/ /\ op = "appendObjectToSlide"
       /\ ~deck.slides["s1"].present
    \/ /\ op = "deleteSlide"
       /\ ~deleteSlideFinds(deck, "s1")

\* C33: a store action whose slide or object does not exist leaves the
\* document as it was and adds no entry to the deck undo stack
C33MissingTargetNoOp ==
    [][TargetMissing(trace'.op)
         => /\ deck' = deck
            /\ items' = items
            /\ alive' = alive
            /\ deckUndoManager'.undoStack = deckUndoManager.undoStack]_vars

\* ghost: no element occurs twice in the sequence
NoDuplicates(seq) == \A i, j \in DOMAIN seq : seq[i] = seq[j] => i = j

\* C34: slideOrder holds no id twice, and the ids in slideOrder are the
\* keys of the slides map
C34SlideOrderMatchesSlides ==
    /\ NoDuplicates(deck.slideOrder)
    /\ SeqToSet(deck.slideOrder) = {s \in SlideIds : deck.slides[s].present}

\* C35: for every slide that exists, objectOrder holds no id twice and the
\* ids in objectOrder are the keys of the objects map; an append of an id
\* that is already there replaces the object and leaves objectOrder alone
C35ObjectOrderMatchesObjects ==
    /\ [](\A s \in SlideIds :
            deck.slides[s].present
              => /\ NoDuplicates(deck.slides[s].order)
                 /\ SeqToSet(deck.slides[s].order)
                      = {o \in ObjIds : deck.slides[s].objects[o].present})
    /\ [][(/\ trace'.op = "appendObjectToSlide"
           /\ deck.slides["s1"].present
           /\ \A o \in ObjIds : deck.slides["s1"].objects[o].present)
            => /\ deck'.slides["s1"].order = deck.slides["s1"].order
               /\ \E o \in ObjIds :
                    /\ deck'.slides["s1"].objects[o] = [present |-> TRUE, x |-> 0, y |-> 0]
                    /\ \A p \in ObjIds \ {o} :
                         deck'.slides["s1"].objects[p] = deck.slides["s1"].objects[p]]_vars

\* object t1 was appended to a slide that already held it, moved to x = 1:
\* the second append replaced it
C35Witness ==
    /\ trace.op = "appendObjectToSlide"
    /\ trace.prev.op = "updateObjectPosition"
    /\ deck.slides["s1"].present
    /\ deck.slides["s1"].objects["t1"] = [present |-> TRUE, x |-> 0, y |-> 0]
    /\ Len(deck.slides["s1"].order) = 2

\* ghost: the operation just done was deleteSlide(sid)
DeletedSlide(t, sid) ==
    /\ t.op = "deleteSlide"
    /\ \E i \in DOMAIN t.log : t.log[i].ev = "call" /\ t.log[i].f = sid

\* C36: deleteSlide of a slide that is in the slides map and in slideOrder
\* takes its id out of slideOrder and its entry out of the slides map in one
\* transaction and returns the slide now at the removed index, else the one
\* before it, else the first, and undefined exactly when no slide remains;
\* for any other id it removes nothing and returns undefined
C36DeleteSlideFallback ==
    [][\A sid \in SlideIds :
         DeletedSlide(trace', sid)
           => IF deleteSlideFinds(deck, sid)
              THEN LET n == deck'.slideOrder
                       i == IndexOf(deck.slideOrder, sid)
                   IN /\ sid \notin SeqToSet(n)
                      /\ ~deck'.slides[sid].present
                      /\ (Cardinality(ChangedWith({DECK_HISTORY_ORIGIN})) = 1)'
                      /\ trace'.f = IF i <= Len(n) THEN n[i]
                                    ELSE IF i > 1 THEN n[i - 1]
                                    ELSE "undefined"
                      /\ trace'.f = "undefined"
                           <=> \A t \in SlideIds : ~deck'.slides[t].present
              ELSE /\ deck'.slideOrder = deck.slideOrder
                   /\ deck'.slides = deck.slides
                   /\ trace'.f = "undefined"]_vars

\* C37: a notification is delivered only to a subscriber that has not
\* unsubscribed: the microtask that runs belongs to an active subscriber
C37NoCallAfterUnsubscribe ==
    [][(/\ historySubscribers.microtasks # <<>>
        /\ historySubscribers'.microtasks = Tail(historySubscribers.microtasks))
         => historySubscribers.subs[Head(historySubscribers.microtasks)].active]_vars

\* C38: a deck undo() that finds an entry leaves the deck undo stack
\* strictly shorter, and a deck redo() that finds an entry leaves the deck
\* redo stack strictly shorter, whatever the delegated fragment call and the
\* listeners push in between; repeated calls therefore run out of entries
C38UndoRedoShortenStacks ==
    [][/\ (trace'.op = "undo" /\ canUndo)
           => Len(deckUndoManager'.undoStack) < Len(deckUndoManager.undoStack)
       /\ (trace'.op = "redo" /\ canRedo)
           => Len(deckUndoManager'.redoStack) < Len(deckUndoManager.redoStack)]_vars

\* a deck redo() with two entries to redo that delegated to a fragment
\* manager, whose push listener ran a relay that the deck manager pushed
C38Witness ==
    /\ trace.op = "redo"
    /\ trace.pre.dR >= 2
    /\ Len(deckUndoManager.redoStack) < trace.pre.dR
    /\ EventsOf("fragCall") # {}
    /\ \E i \in EventsOf("deckPush") : trace.log[i].origin = TEXT_HISTORY_ORIGIN

====
